---- MODULE Spec2Model ----
(***************************************************************************)
(* Blackjack Lite (blackjack_lite.py): the Deck, the Hand, the            *)
(* BlackjackGame engine and its command-line caller play_blackjack_cli.   *)
(* Higher/Lower (card_game.py): the HigherLowerGame engine.               *)
(***************************************************************************)
EXTENDS Integers, Sequences, FiniteSets, TLC

(* ------------------------------ bounds -------------------------------- *)
\* start_new_round is called at most MaxRounds times in one behaviour
MaxRounds == 10
\* a direct caller of the engine stops hitting at MaxHand player cards
MaxHand == 6
\* a direct caller of the engine starts at most MaxApiRounds rounds
MaxApiRounds == 3
\* a direct caller of the engine resolves at most MaxApiResolved times
MaxApiResolved == 3
\* a Hand on its own is built up to MaxCards cards
MaxCards == 4
\* a Deck on its own holds up to MaxDeck cards
MaxDeck == 5
\* a caller of the Higher/Lower game starts at most MaxGames games
MaxGames == 3
\* and stops guessing once the score is MaxScore
MaxScore == 3

(* ------------------------------- cards -------------------------------- *)
Suit == <<"HEARTS", "DIAMONDS", "CLUBS", "SPADES">>

Rank == <<"TWO", "THREE", "FOUR", "FIVE", "SIX", "SEVEN", "EIGHT", "NINE",
          "TEN", "JACK", "QUEEN", "KING", "ACE">>

\* Rank.blackjack_value: the first component of the enum value
blackjack_value == [r \in {Rank[i] : i \in 1..13} |->
    CASE r = "TWO" -> 2 [] r = "THREE" -> 3 [] r = "FOUR" -> 4
      [] r = "FIVE" -> 5 [] r = "SIX" -> 6 [] r = "SEVEN" -> 7
      [] r = "EIGHT" -> 8 [] r = "NINE" -> 9 [] r = "TEN" -> 10
      [] r = "JACK" -> 10 [] r = "QUEEN" -> 10 [] r = "KING" -> 10
      [] r = "ACE" -> 11]

Card(rank, suit) == [rank |-> rank, suit |-> suit]

\* Python's None, returned by Deck.draw on an empty deck
None == [rank |-> "None", suit |-> "None"]

get_blackjack_value(card) == blackjack_value[card.rank]

is_ace(card) == card.rank = "ACE"

(* -------------------------------- Deck -------------------------------- *)
\* for suit in Suit: for rank in Rank: cards.append(Card(rank, suit))
initialize_deck ==
    [k \in 1..52 |-> Card(Rank[((k - 1) % 13) + 1], Suit[((k - 1) \div 13) + 1])]

\* cards[i], cards[j] = cards[j], cards[i]   (0-based i, j)
Swap(cards, i, j) ==
    [cards EXCEPT ![i + 1] = cards[j + 1], ![j + 1] = cards[i + 1]]

\* random.randint(a, b): any integer from a to b, both included
randint(a, b) == a..b

\* variant: the loop stops one index early (range(n - 1, 1, -1))
RECURSIVE ShuffleFrom_stops_early(_, _, _)
ShuffleFrom_stops_early(cards, rnd, i) ==
    IF i < 2 THEN cards
    ELSE ShuffleFrom_stops_early(Swap(cards, i, rnd[i]), rnd, i - 1)

\* the loop of Deck.shuffle from index i down to 1; rnd[i] is the value
\* random.randint(0, i) returns in the iteration for index i
RECURSIVE ShuffleFrom(_, _, _)
ShuffleFrom(cards, rnd, i) ==
    IF i < 1 THEN cards
    ELSE ShuffleFrom(Swap(cards, i, rnd[i]), rnd, i - 1)

shuffle(cards, rnd) == ShuffleFrom(cards, rnd, Len(cards) - 1)

\* variant: the top card is returned but stays in the deck (cards[-1])
draw_keep(cards) ==
    IF Len(cards) > 0
    THEN [card |-> cards[Len(cards)], cards |-> cards]
    ELSE [card |-> None, cards |-> cards]

\* variant: the card is taken from the front (cards.pop(0))
draw_front(cards) ==
    IF Len(cards) > 0
    THEN [card |-> cards[1], cards |-> SubSeq(cards, 2, Len(cards))]
    ELSE [card |-> None, cards |-> cards]

\* Deck.draw: cards.pop() if cards else None
draw(cards) ==
    IF Len(cards) > 0
    THEN [card |-> cards[Len(cards)], cards |-> SubSeq(cards, 1, Len(cards) - 1)]
    ELSE [card |-> None, cards |-> cards]

reset(rnd) == shuffle(initialize_deck, rnd)

(* -------------------------------- Hand -------------------------------- *)
add_card(hand, card) == Append(hand, card)

\* card.is_ace() on None raises AttributeError
Raises(hand) == \E i \in 1..Len(hand) : hand[i] = None

\* the for loop of get_value: every Ace counted as 11
RECURSIVE SumFrom(_, _)
SumFrom(hand, i) ==
    IF i > Len(hand) THEN 0
    ELSE (IF is_ace(hand[i]) THEN 11 ELSE get_blackjack_value(hand[i]))
         + SumFrom(hand, i + 1)

Aces(hand) == Cardinality({i \in 1..Len(hand) : is_ace(hand[i])})

\* while value > 21 and aces > 0: value -= 10; aces -= 1
\* variant: "if" in place of "while": at most one Ace is reduced
Adjust_once(value, aces) ==
    IF value > 21 /\ aces > 0 THEN value - 10 ELSE value

RECURSIVE Adjust(_, _)
Adjust(value, aces) ==
    IF value > 21 /\ aces > 0 THEN Adjust(value - 10, aces - 1) ELSE value

get_value(hand) == Adjust(SumFrom(hand, 1), Aces(hand))

is_bust(hand) == get_value(hand) > 21

\* variant: the two-card test left out
is_blackjack_any21(hand) == get_value(hand) = 21

is_blackjack(hand) == Len(hand) = 2 /\ get_value(hand) = 21

(* ---------------------------- BlackjackGame --------------------------- *)
\* the outcome of one engine call: the object afterwards, the value
\* returned (as Python prints it) and the exception raised, if any
Outcome(g, ret, exc) == [game |-> g, ret |-> ret, exc |-> exc]

NewGame(rnd) ==
    [deck |-> shuffle(initialize_deck, rnd),
     player_hand |-> <<>>, dealer_hand |-> <<>>,
     wins |-> 0, losses |-> 0, pushes |-> 0]

ReshuffleThreshold == 15

\* variant: two cards to the player, then two to the dealer
start_new_round_two_each(g, rnd) ==
    LET d0 == IF Len(g.deck) < ReshuffleThreshold THEN reset(rnd) ELSE g.deck
        d1 == draw(d0)
        d2 == draw(d1.cards)
        d3 == draw(d2.cards)
        d4 == draw(d3.cards)
    IN Outcome([g EXCEPT !.deck = d4.cards,
                         !.player_hand = <<d1.card, d2.card>>,
                         !.dealer_hand = <<d3.card, d4.card>>],
               "None", "none")

\* variant: the hands are not cleared before the deal
start_new_round_keeps_hands(g, rnd) ==
    LET d0 == IF Len(g.deck) < ReshuffleThreshold THEN reset(rnd) ELSE g.deck
        d1 == draw(d0)
        d2 == draw(d1.cards)
        d3 == draw(d2.cards)
        d4 == draw(d3.cards)
    IN Outcome([g EXCEPT !.deck = d4.cards,
                         !.player_hand = @ \o <<d1.card, d3.card>>,
                         !.dealer_hand = @ \o <<d2.card, d4.card>>],
               "None", "none")

start_new_round(g, rnd) ==
    LET d0 == IF Len(g.deck) < ReshuffleThreshold THEN reset(rnd) ELSE g.deck
        d1 == draw(d0)
        d2 == draw(d1.cards)
        d3 == draw(d2.cards)
        d4 == draw(d3.cards)
    IN Outcome([g EXCEPT !.deck = d4.cards,
                         !.player_hand = <<d1.card, d3.card>>,
                         !.dealer_hand = <<d2.card, d4.card>>],
               "None", "none")

\* variant: the return value is computed before the card is added
player_hit_stale(g) ==
    LET d == draw(g.deck)
        h == add_card(g.player_hand, d.card)
        g1 == [g EXCEPT !.deck = d.cards, !.player_hand = h]
    IN IF Raises(h) THEN Outcome(g1, "None", "AttributeError")
       ELSE Outcome(g1, IF is_bust(g.player_hand) THEN "False" ELSE "True", "none")

player_hit(g) ==
    LET d == draw(g.deck)
        h == add_card(g.player_hand, d.card)
        g1 == [g EXCEPT !.deck = d.cards, !.player_hand = h]
    IN IF Raises(h) THEN Outcome(g1, "None", "AttributeError")
       ELSE Outcome(g1, IF is_bust(h) THEN "False" ELSE "True", "none")

\* variant: the dealer also draws on 17
RECURSIVE dealer_play_hits_17(_)
dealer_play_hits_17(g) ==
    IF Raises(g.dealer_hand) THEN Outcome(g, "None", "AttributeError")
    ELSE IF get_value(g.dealer_hand) <= 17
         THEN LET d == draw(g.deck)
              IN dealer_play_hits_17([g EXCEPT !.deck = d.cards,
                                               !.dealer_hand = add_card(@, d.card)])
         ELSE Outcome(g, "None", "none")

RECURSIVE dealer_play(_)
dealer_play(g) ==
    IF Raises(g.dealer_hand) THEN Outcome(g, "None", "AttributeError")
    ELSE IF get_value(g.dealer_hand) < 17
         THEN LET d == draw(g.deck)
              IN dealer_play([g EXCEPT !.deck = d.cards,
                                       !.dealer_hand = add_card(@, d.card)])
         ELSE Outcome(g, "None", "none")

\* variant: the dealer-bust check placed before the player-bust check
determine_winner_dealer_first(g) ==
    IF Raises(g.player_hand) \/ Raises(g.dealer_hand)
    THEN Outcome(g, "None", "AttributeError")
    ELSE LET player_value == get_value(g.player_hand)
             dealer_value == get_value(g.dealer_hand)
         IN IF is_bust(g.dealer_hand)
            THEN Outcome([g EXCEPT !.wins = @ + 1], "player_dealer_bust", "none")
            ELSE IF is_bust(g.player_hand)
            THEN Outcome([g EXCEPT !.losses = @ + 1], "dealer_bust_player", "none")
            ELSE IF is_blackjack(g.player_hand) /\ ~is_blackjack(g.dealer_hand)
            THEN Outcome([g EXCEPT !.wins = @ + 1], "player_blackjack", "none")
            ELSE IF is_blackjack(g.dealer_hand) /\ ~is_blackjack(g.player_hand)
            THEN Outcome([g EXCEPT !.losses = @ + 1], "dealer_blackjack", "none")
            ELSE IF player_value > dealer_value
            THEN Outcome([g EXCEPT !.wins = @ + 1], "player_higher", "none")
            ELSE IF dealer_value > player_value
            THEN Outcome([g EXCEPT !.losses = @ + 1], "dealer_higher", "none")
            ELSE Outcome([g EXCEPT !.pushes = @ + 1], "push", "none")

\* variant: the blackjack rules test the other hand's value, not whether it is a blackjack
determine_winner_by_value(g) ==
    IF Raises(g.player_hand) \/ Raises(g.dealer_hand)
    THEN Outcome(g, "None", "AttributeError")
    ELSE LET player_value == get_value(g.player_hand)
             dealer_value == get_value(g.dealer_hand)
         IN IF is_bust(g.player_hand)
            THEN Outcome([g EXCEPT !.losses = @ + 1], "dealer_bust_player", "none")
            ELSE IF is_bust(g.dealer_hand)
            THEN Outcome([g EXCEPT !.wins = @ + 1], "player_dealer_bust", "none")
            ELSE IF is_blackjack(g.player_hand) /\ get_value(g.dealer_hand) # 21
            THEN Outcome([g EXCEPT !.wins = @ + 1], "player_blackjack", "none")
            ELSE IF is_blackjack(g.dealer_hand) /\ get_value(g.player_hand) # 21
            THEN Outcome([g EXCEPT !.losses = @ + 1], "dealer_blackjack", "none")
            ELSE IF player_value > dealer_value
            THEN Outcome([g EXCEPT !.wins = @ + 1], "player_higher", "none")
            ELSE IF dealer_value > player_value
            THEN Outcome([g EXCEPT !.losses = @ + 1], "dealer_higher", "none")
            ELSE Outcome([g EXCEPT !.pushes = @ + 1], "push", "none")

\* variant: the dealer-higher comparison written with >=
determine_winner_ties_lose(g) ==
    IF Raises(g.player_hand) \/ Raises(g.dealer_hand)
    THEN Outcome(g, "None", "AttributeError")
    ELSE LET player_value == get_value(g.player_hand)
             dealer_value == get_value(g.dealer_hand)
         IN IF is_bust(g.player_hand)
            THEN Outcome([g EXCEPT !.losses = @ + 1], "dealer_bust_player", "none")
            ELSE IF is_bust(g.dealer_hand)
            THEN Outcome([g EXCEPT !.wins = @ + 1], "player_dealer_bust", "none")
            ELSE IF is_blackjack(g.player_hand) /\ ~is_blackjack(g.dealer_hand)
            THEN Outcome([g EXCEPT !.wins = @ + 1], "player_blackjack", "none")
            ELSE IF is_blackjack(g.dealer_hand) /\ ~is_blackjack(g.player_hand)
            THEN Outcome([g EXCEPT !.losses = @ + 1], "dealer_blackjack", "none")
            ELSE IF player_value > dealer_value
            THEN Outcome([g EXCEPT !.wins = @ + 1], "player_higher", "none")
            ELSE IF dealer_value >= player_value
            THEN Outcome([g EXCEPT !.losses = @ + 1], "dealer_higher", "none")
            ELSE Outcome([g EXCEPT !.pushes = @ + 1], "push", "none")

\* variant: one tag misspelt
determine_winner_tag_typo(g) ==
    IF Raises(g.player_hand) \/ Raises(g.dealer_hand)
    THEN Outcome(g, "None", "AttributeError")
    ELSE LET player_value == get_value(g.player_hand)
             dealer_value == get_value(g.dealer_hand)
         IN IF is_bust(g.player_hand)
            THEN Outcome([g EXCEPT !.losses = @ + 1], "dealer_bust_player", "none")
            ELSE IF is_bust(g.dealer_hand)
            THEN Outcome([g EXCEPT !.wins = @ + 1], "player_dealer_bust", "none")
            ELSE IF is_blackjack(g.player_hand) /\ ~is_blackjack(g.dealer_hand)
            THEN Outcome([g EXCEPT !.wins = @ + 1], "player_blackjack", "none")
            ELSE IF is_blackjack(g.dealer_hand) /\ ~is_blackjack(g.player_hand)
            THEN Outcome([g EXCEPT !.losses = @ + 1], "dealer_blackjack", "none")
            ELSE IF player_value > dealer_value
            THEN Outcome([g EXCEPT !.wins = @ + 1], "player_high", "none")
            ELSE IF dealer_value > player_value
            THEN Outcome([g EXCEPT !.losses = @ + 1], "dealer_higher", "none")
            ELSE Outcome([g EXCEPT !.pushes = @ + 1], "push", "none")

determine_winner(g) ==
    IF Raises(g.player_hand) \/ Raises(g.dealer_hand)
    THEN Outcome(g, "None", "AttributeError")
    ELSE LET player_value == get_value(g.player_hand)
             dealer_value == get_value(g.dealer_hand)
         IN IF is_bust(g.player_hand)
            THEN Outcome([g EXCEPT !.losses = @ + 1], "dealer_bust_player", "none")
            ELSE IF is_bust(g.dealer_hand)
            THEN Outcome([g EXCEPT !.wins = @ + 1], "player_dealer_bust", "none")
            ELSE IF is_blackjack(g.player_hand) /\ ~is_blackjack(g.dealer_hand)
            THEN Outcome([g EXCEPT !.wins = @ + 1], "player_blackjack", "none")
            ELSE IF is_blackjack(g.dealer_hand) /\ ~is_blackjack(g.player_hand)
            THEN Outcome([g EXCEPT !.losses = @ + 1], "dealer_blackjack", "none")
            ELSE IF player_value > dealer_value
            THEN Outcome([g EXCEPT !.wins = @ + 1], "player_higher", "none")
            ELSE IF dealer_value > player_value
            THEN Outcome([g EXCEPT !.losses = @ + 1], "dealer_higher", "none")
            ELSE Outcome([g EXCEPT !.pushes = @ + 1], "push", "none")

\* a quotient of integers, kept exact: wins / total, and its product by 100
Div(a, b) == [num |-> a, den |-> b]

Mul(q, k) == [num |-> q.num * k, den |-> q.den]

\* variant: pushes left out of the total
get_statistics_no_pushes(g) ==
    LET total == g.wins + g.losses
        win_rate == IF total > 0 THEN Mul(Div(g.wins, total), 100) ELSE Div(0, 1)
    IN [wins |-> g.wins, losses |-> g.losses, pushes |-> g.pushes,
        total |-> total, win_rate |-> win_rate]

get_statistics(g) ==
    LET total == g.wins + g.losses + g.pushes
        win_rate == IF total > 0 THEN Mul(Div(g.wins, total), 100) ELSE Div(0, 1)
    IN [wins |-> g.wins, losses |-> g.losses, pushes |-> g.pushes,
        total |-> total, win_rate |-> win_rate]

(* ------------------------- the random source ------------------------- *)
\* One element is the sequence of values random.randint(0, i) returns in a
\* shuffle of 52 cards, indexed by i = 1..51.  Each is an outcome the
\* generator can produce.
\* Rnd1 leaves the low cards (Aces, 2s, 3s, three 4s) at the bottom.
Rnd1 == <<0, 1, 0, 1, 0, 4, 5, 0, 8, 2, 5, 7, 11, 12, 11, 3, 11, 11, 7, 6,
          21, 22, 6, 18, 19, 4, 20, 5, 18, 7, 5, 10, 29, 32, 23, 20, 10, 2,
          9, 34, 16, 24, 11, 19, 3, 6, 7, 17, 21, 4, 8>>

\* Rnd2 puts Aces and ten-valued cards near the top.
Rnd2 == <<0, 2, 1, 2, 2, 2, 6, 1, 6, 0, 10, 0, 1, 2, 6, 7, 9, 14, 15, 16,
          17, 19, 22, 21, 20, 19, 17, 16, 15, 14, 13, 9, 7, 6, 2, 1, 0, 23,
          10, 12, 38, 31, 24, 18, 25, 5, 8, 4, 11, 3, 12>>

\* Rnd0 always answers i: no card moves.
Rnd0 == [i \in 1..51 |-> i]

RandomSources == {Rnd0, Rnd1, Rnd2}

(* ------------------------------- state -------------------------------- *)
VARIABLES
    game,    \* the BlackjackGame object
    calls,   \* the engine calls of the latest step, with what each returned
    pc,      \* where play_blackjack_cli stands
    rounds   \* number of start_new_round calls so far

vars == <<game, calls, pc, rounds>>

Call(op, out) == [op |-> op, ret |-> out.ret, exc |-> out.exc]

Init ==
    /\ game \in {NewGame(rnd) : rnd \in RandomSources}
    /\ calls = <<>>
    /\ pc = "start"
    /\ rounds = 0

(* ---------------- the engine called directly (no caller) --------------- *)
StartNewRound ==
    /\ rounds < MaxApiRounds
    /\ \E rnd \in RandomSources :
          LET out == start_new_round(game, rnd)
          IN /\ game' = out.game
             /\ calls' = <<Call("start_new_round", out)>>
    /\ rounds' = rounds + 1
    /\ UNCHANGED pc

PlayerHit ==
    /\ Len(game.player_hand) < MaxHand
    /\ LET out == player_hit(game)
       IN /\ game' = out.game
          /\ calls' = <<Call("player_hit", out)>>
    /\ UNCHANGED <<pc, rounds>>

DealerPlay ==
    /\ LET out == dealer_play(game)
       IN /\ game' = out.game
          /\ calls' = <<Call("dealer_play", out)>>
    /\ UNCHANGED <<pc, rounds>>

DetermineWinner ==
    /\ game.wins + game.losses + game.pushes < MaxApiResolved
    /\ LET out == determine_winner(game)
       IN /\ game' = out.game
          /\ calls' = <<Call("determine_winner", out)>>
    /\ UNCHANGED <<pc, rounds>>

Next == StartNewRound \/ PlayerHit \/ DealerPlay \/ DetermineWinner

Spec == Init /\ [][Next]_vars

\* the engine called directly, get_statistics included
GetStatistics ==
    /\ calls' = <<[op |-> "get_statistics", ret |-> "dict", exc |-> "none",
                   stats |-> get_statistics(game)]>>
    /\ UNCHANGED <<game, pc, rounds>>

NextStats == Next \/ GetStatistics

SpecStats == Init /\ [][NextStats]_vars

(* ------------------------- play_blackjack_cli -------------------------- *)
\* dealer_play(); determine_winner()  -- an exception ends the program
DealerThenResolve(g) ==
    LET d == dealer_play(g)
        w == determine_winner(d.game)
    IN IF d.exc # "none"
       THEN [game |-> d.game, calls |-> <<Call("dealer_play", d)>>,
             pc |-> "crashed"]
       ELSE [game |-> w.game,
             calls |-> <<Call("dealer_play", d), Call("determine_winner", w)>>,
             pc |-> IF w.exc # "none" THEN "crashed" ELSE "ask_continue"]

\* variant: the caller tests the dealer's hand
CheckPlayerBlackjack_dealer(g) == is_blackjack(g.dealer_hand)

\* "Check for player blackjack": if game.player_hand.is_blackjack()
CheckPlayerBlackjack(g) == is_blackjack(g.player_hand)

\* top of the loop: start_new_round, and the natural-blackjack branch
CliStartRound ==
    /\ pc = "start"
    /\ rounds < MaxRounds
    /\ rounds' = rounds + 1
    /\ \E rnd \in RandomSources :
          LET s == start_new_round(game, rnd)
              r == DealerThenResolve(s.game)
          IN IF CheckPlayerBlackjack(s.game)
             THEN /\ game' = r.game
                  /\ calls' = <<Call("start_new_round", s)>> \o r.calls
                  /\ pc' = r.pc
             ELSE /\ game' = s.game
                  /\ calls' = <<Call("start_new_round", s)>>
                  /\ pc' = "ask_action"

\* action == 'H'
CliHit ==
    /\ pc = "ask_action"
    /\ UNCHANGED rounds
    /\ LET h == player_hit(game)
           w == determine_winner(h.game)
       IN IF h.exc # "none"
          THEN /\ game' = h.game
               /\ calls' = <<Call("player_hit", h)>>
               /\ pc' = "crashed"
          ELSE IF h.ret = "False"
          THEN /\ game' = w.game
               /\ calls' = <<Call("player_hit", h), Call("determine_winner", w)>>
               /\ pc' = IF w.exc # "none" THEN "crashed" ELSE "ask_continue"
          ELSE /\ game' = h.game
               /\ calls' = <<Call("player_hit", h)>>
               /\ pc' = "ask_action"

\* action == 'S'
CliStand ==
    /\ pc = "ask_action"
    /\ UNCHANGED rounds
    /\ LET r == DealerThenResolve(game)
       IN /\ game' = r.game
          /\ calls' = r.calls
          /\ pc' = r.pc

\* "Play another hand?" answered y
CliPlayAgain ==
    /\ pc = "ask_continue"
    /\ pc' = "start"
    /\ calls' = <<>>
    /\ UNCHANGED <<game, rounds>>

\* "Play another hand?" answered otherwise
CliQuit ==
    /\ pc = "ask_continue"
    /\ pc' = "done"
    /\ calls' = <<>>
    /\ UNCHANGED <<game, rounds>>

NextCLI == CliStartRound \/ CliHit \/ CliStand \/ CliPlayAgain \/ CliQuit

SpecCLI == Init /\ [][NextCLI]_vars

(* ------------------------------ helpers ------------------------------- *)
\* the last engine call of the latest step
LastCall == calls[Len(calls)]

Resolved == calls # <<>> /\ LastCall.op = "determine_winner" /\ LastCall.exc = "none"

\* the latest step called op first (primed: the step just taken)
Stepped(op) == calls' # <<>> /\ calls'[1].op = op

\* the latest step ended in a determine_winner that returned
ResolvedStep == calls' # <<>> /\ calls'[Len(calls')].op = "determine_winner"
                /\ calls'[Len(calls')].exc = "none"

Tag == calls'[Len(calls')].ret

Natural(hand) == Len(hand) = 2 /\ get_value(hand) = 21

OnlyWins == game'.wins = game.wins + 1 /\ game'.losses = game.losses
            /\ game'.pushes = game.pushes

OnlyLosses == game'.losses = game.losses + 1 /\ game'.wins = game.wins
              /\ game'.pushes = game.pushes

OnlyPushes == game'.pushes = game.pushes + 1 /\ game'.wins = game.wins
              /\ game'.losses = game.losses

(* ------------------------------- claims ------------------------------- *)
\* C1: when player_hit or dealer_play needs a card and the deck is empty, a
\* fresh deck is reshuffled: no hand ever holds None and neither operation
\* ends in an exception.
C1_EmptyDeckReshuffled ==
    /\ \A i \in 1..Len(calls) :
          calls[i].op \in {"player_hit", "dealer_play"} => calls[i].exc = "none"
    /\ \A i \in 1..Len(game.player_hand) : game.player_hand[i] # None
    /\ \A i \in 1..Len(game.dealer_hand) : game.dealer_hand[i] # None

\* C2: player_hit, dealer_play or determine_winner called before any round
\* has been dealt is reported as a failure and changes neither the hands,
\* the deck nor the counters.
C2_InvalidCallRejected ==
    [][(rounds = 0 /\ rounds' = 0 /\ calls' # <<>>
        /\ calls'[1].op \in {"player_hit", "dealer_play", "determine_winner"})
       => (calls'[1].exc # "none" /\ game' = game)]_vars

\* C3: start_new_round rebuilds the deck exactly when fewer than 14 cards
\* remain (a rebuilt deck is larger after the step than the deck before it;
\* a deck that is not rebuilt only shrinks).
C3_ResetExactlyBelow14 ==
    [][rounds' = rounds + 1
       => ((Len(game.deck) < 14) <=> (Len(game'.deck) > Len(game.deck)))]_vars

\* C4: through the normal lifecycle the deck is never empty when a card is
\* drawn (draw answers None exactly on an empty deck, and the card drawn is
\* appended to a hand).
C4_NoDrawOnEmptyDeck == ~Raises(game.player_hand) /\ ~Raises(game.dealer_hand)

C6_HitThenBustResolves ==
    [][Stepped("player_hit")
       => /\ Len(game.deck) > 0
          /\ game'.deck = SubSeq(game.deck, 1, Len(game.deck) - 1)
          /\ game'.player_hand = Append(game.player_hand, game.deck[Len(game.deck)])
          /\ (calls'[1].ret = "True") <=> ~(get_value(game'.player_hand) > 21)
          /\ calls'[1].ret \in {"True", "False"}
          /\ (calls'[1].ret = "False")
               => /\ ResolvedStep /\ Len(calls') = 2
                  /\ pc' = "ask_continue"
                  /\ OnlyLosses
                  /\ game'.dealer_hand = game.dealer_hand]_vars

C6_Witness ==
    /\ Resolved /\ Len(calls) = 2 /\ calls[1].op = "player_hit"
    /\ calls[1].ret = "False" /\ get_value(game.player_hand) > 21
    /\ pc = "ask_continue" /\ game.losses > 0

\* C7: in determine_winner the bust checks come first: a bust player adds
\* one loss whatever the dealer holds; a bust dealer against a player who
\* is not bust adds one win.
C7_BustChecksFirst ==
    [][ResolvedStep
       => /\ get_value(game'.player_hand) > 21 => OnlyLosses
          /\ (get_value(game'.player_hand) <= 21 /\ get_value(game'.dealer_hand) > 21)
               => OnlyWins]_vars

C7_Witness ==
    /\ Resolved
    /\ get_value(game.player_hand) > 21 /\ get_value(game.dealer_hand) > 21
    /\ game.losses > 0

\* C8: whenever the player's hand is bust, determine_winner returns the tag
\* player_dealer_bust.
C8_PlayerBustTag ==
    (Resolved /\ get_value(game.player_hand) > 21)
       => LastCall.ret = "player_dealer_bust"

\* C9: with neither hand bust, a blackjack beats every hand that is not a
\* blackjack, a 21 of three or more cards included.
C9_BlackjackBeatsNonBlackjack ==
    [][(ResolvedStep /\ get_value(game'.player_hand) <= 21
                     /\ get_value(game'.dealer_hand) <= 21)
       => /\ (Natural(game'.player_hand) /\ ~Natural(game'.dealer_hand))
               => (Tag = "player_blackjack" /\ OnlyWins)
          /\ (Natural(game'.dealer_hand) /\ ~Natural(game'.player_hand))
               => (Tag = "dealer_blackjack" /\ OnlyLosses)]_vars

C9_Witness ==
    /\ Resolved /\ LastCall.ret = "dealer_blackjack"
    /\ Natural(game.dealer_hand)
    /\ Len(game.player_hand) >= 3 /\ get_value(game.player_hand) = 21

\* C10: with neither hand bust and both or neither hand a blackjack, the
\* values are compared: higher player wins, higher dealer loses, equal
\* values push.
C10_CompareValues ==
    [][(ResolvedStep /\ get_value(game'.player_hand) <= 21
                     /\ get_value(game'.dealer_hand) <= 21
                     /\ (Natural(game'.player_hand) <=> Natural(game'.dealer_hand)))
       => LET pv == get_value(game'.player_hand)
              dv == get_value(game'.dealer_hand)
          IN /\ pv > dv => (Tag = "player_higher" /\ OnlyWins)
             /\ dv > pv => (Tag = "dealer_higher" /\ OnlyLosses)
             /\ pv = dv => (Tag = "push" /\ OnlyPushes)]_vars

C10_Witness ==
    /\ Resolved /\ LastCall.ret = "push"
    /\ Natural(game.player_hand) /\ Natural(game.dealer_hand)
    /\ game.pushes > 0

\* C11: every determine_winner call (on hands of cards) returns one tag of
\* the closed set, adds one to exactly one of wins, losses, pushes, and
\* leaves both hands and the deck as they were.
TagSet == {"player_dealer_bust", "dealer_bust_player", "player_blackjack",
           "dealer_blackjack", "player_higher", "dealer_higher", "push"}

C11_OneTagOneCounter ==
    [][(Stepped("determine_winner")
        /\ ~Raises(game.player_hand) /\ ~Raises(game.dealer_hand))
       => /\ calls'[1].exc = "none"
          /\ calls'[1].ret \in TagSet
          /\ OnlyWins \/ OnlyLosses \/ OnlyPushes
          /\ game'.player_hand = game.player_hand
          /\ game'.dealer_hand = game.dealer_hand
          /\ game'.deck = game.deck]_vars

C11_Witness ==
    /\ Resolved /\ Len(calls) = 1 /\ LastCall.ret = "player_higher"
    /\ game.wins = 1 /\ game.losses = 1 /\ game.pushes = 0

\* C12: dealer_play draws from the top of the deck exactly while the
\* dealer's value is below 17: from 17 or more no card is drawn, from below
\* 17 at least one, and when it returns the value is at least 17 while the
\* value before the last card drawn was below 17.
C12_DealerDrawsBelow17 ==
    [][(Stepped("dealer_play") /\ Len(calls') = 1 /\ calls'[1].exc = "none")
       => LET before == game.dealer_hand
              after == game'.dealer_hand
              n == Len(after) - Len(before)
          IN /\ n >= 0 /\ SubSeq(after, 1, Len(before)) = before
             /\ Len(game.deck) >= n
             /\ game'.deck = SubSeq(game.deck, 1, Len(game.deck) - n)
             /\ \A k \in 1..n :
                   after[Len(before) + k] = game.deck[Len(game.deck) - k + 1]
             /\ get_value(before) >= 17 => n = 0
             /\ get_value(before) < 17 => n >= 1
             /\ get_value(after) >= 17
             /\ \A k \in 0..(n - 1) :
                   get_value(SubSeq(after, 1, Len(before) + k)) < 17
             /\ game'.player_hand = game.player_hand]_vars

C12_Witness ==
    /\ calls # <<>> /\ LastCall.op = "dealer_play" /\ LastCall.exc = "none"
    /\ Len(game.dealer_hand) >= 4
    /\ get_value(game.dealer_hand) = 17
    /\ get_value(SubSeq(game.dealer_hand, 1, Len(game.dealer_hand) - 1)) = 16

(* --------------------------- a Hand on its own ------------------------- *)
\* Hand(): no cards; the other fields of the engine are not involved
InitHand ==
    /\ game = [deck |-> <<>>, player_hand |-> <<>>, dealer_hand |-> <<>>,
               wins |-> 0, losses |-> 0, pushes |-> 0]
    /\ calls = <<>>
    /\ pc = "start"
    /\ rounds = 0

\* how many cards of this rank the hand holds
Held(hand, rank) == Cardinality({i \in 1..Len(hand) : hand[i].rank = rank})

\* Hand.add_card with any card of the deck the hand does not hold yet
\* (suits are taken in the order of Suit)
HandAddCard ==
    /\ Len(game.player_hand) < MaxCards
    /\ \E k \in 1..13 :
          /\ Held(game.player_hand, Rank[k]) < 4
          /\ game' = [game EXCEPT !.player_hand =
                add_card(@, Card(Rank[k], Suit[Held(game.player_hand, Rank[k]) + 1]))]
    /\ calls' = <<[op |-> "add_card", ret |-> "None", exc |-> "none"]>>
    /\ UNCHANGED <<pc, rounds>>

NextHand == HandAddCard

SpecHand == InitHand /\ [][NextHand]_vars

\* the total of a hand with every Ace counted as 1
RECURSIVE PlainSum(_, _)
PlainSum(hand, n) ==
    IF n = 0 THEN 0
    ELSE PlainSum(hand, n - 1)
         + (IF hand[n].rank = "ACE" THEN 1 ELSE blackjack_value[hand[n].rank])

\* the totals obtainable by counting k of the Aces as 11
Totals(hand) ==
    {PlainSum(hand, Len(hand)) + 10 * k : k \in 0..Held(hand, "ACE")}

BestTotal(hand) ==
    LET good == {t \in Totals(hand) : t <= 21}
    IN IF good # {} THEN CHOOSE t \in good : \A u \in good : u <= t
       ELSE PlainSum(hand, Len(hand))

\* C13: get_value is the largest total not above 21 obtainable by counting
\* each Ace as 1 or 11, or the all-Aces-as-1 total when there is none; with
\* no Ace it is the plain sum of the point values.
C13_ValueIsBestTotal ==
    /\ get_value(game.player_hand) = BestTotal(game.player_hand)
    /\ Held(game.player_hand, "ACE") = 0
         => get_value(game.player_hand) = PlainSum(game.player_hand, Len(game.player_hand))

C13_Witness ==
    /\ Held(game.player_hand, "ACE") = 3 /\ Len(game.player_hand) = 4
    /\ get_value(game.player_hand) = 21

\* C14: is_blackjack holds exactly for the two-card hands of one Ace and one
\* ten-valued card; a hand of three or more cards is never a blackjack.
TenRanks == {"TEN", "JACK", "QUEEN", "KING"}

C14_BlackjackIsAceAndTen ==
    LET h == game.player_hand
    IN /\ is_blackjack(h) <=>
            (Len(h) = 2 /\ \E i, j \in 1..2 :
                              h[i].rank = "ACE" /\ h[j].rank \in TenRanks)
       /\ is_blackjack(h) <=> (Len(h) = 2 /\ get_value(h) = 21)
       /\ Len(h) >= 3 => ~is_blackjack(h)

C14_Witness ==
    /\ Len(game.player_hand) = 3 /\ get_value(game.player_hand) = 21
    /\ Held(game.player_hand, "ACE") = 2 /\ Held(game.player_hand, "NINE") = 1
    /\ ~is_blackjack(game.player_hand)

(* ------------------------- deck and card claims ------------------------ *)
CardsOf(seq) == {seq[i] : i \in 1..Len(seq)} \ {None}

\* the entries of a hand that are cards
RealLen(hand) == Cardinality({i \in 1..Len(hand) : hand[i] # None})

NoDup(seq) == Cardinality(CardsOf(seq)) = Len(seq)

AllPairs == {Card(Rank[i], Suit[j]) : i \in 1..13, j \in 1..4}

\* C15: the deck never holds more than 52 cards nor a card twice; a step
\* either rebuilds it (the 52 rank/suit pairs, each once, of which the cards
\* dealt since are in the hands) or removes from its end one card for each
\* card that entered a hand.
C15_DeckOf52Distinct ==
    /\ [](Len(game.deck) <= 52 /\ NoDup(game.deck) /\ CardsOf(game.deck) \subseteq AllPairs)
    /\ [][LET inHands == RealLen(game'.player_hand) + RealLen(game'.dealer_hand)
              before == IF rounds' = rounds + 1 THEN 0
                        ELSE RealLen(game.player_hand) + RealLen(game.dealer_hand)
          IN IF Len(game'.deck) > Len(game.deck)
             THEN /\ rounds' = rounds + 1
                  /\ Len(game'.deck) + inHands = 52
                  /\ CardsOf(game'.deck) \cup CardsOf(game'.player_hand)
                        \cup CardsOf(game'.dealer_hand) = AllPairs
             ELSE /\ game'.deck = SubSeq(game.deck, 1, Len(game'.deck))
                  /\ Len(game.deck) - Len(game'.deck) = inHands - before]_vars

C15_Witness ==
    /\ rounds > 3 /\ Len(game.deck) = 48
    /\ calls # <<>> /\ calls[1].op = "start_new_round" /\ Len(calls) = 1

(* --------------------------- a Deck on its own ------------------------- *)
\* the values the calls of random.randint(0, i) can return in one shuffle of
\* n cards, indexed by i = 1..n-1
ChoiceSeqs(n) ==
    {rnd \in [1..(n - 1) -> 0..(n - 1)] : \A i \in 1..(n - 1) : rnd[i] \in randint(0, i)}

\* the first n cards of the canonical order, not yet shuffled
InitDeck ==
    /\ \E n \in 1..MaxDeck :
          game = [deck |-> SubSeq(initialize_deck, 1, n),
                  player_hand |-> <<>>, dealer_hand |-> <<>>,
                  wins |-> 0, losses |-> 0, pushes |-> 0]
    /\ calls = <<>>
    /\ pc = "start"
    /\ rounds = 0

\* Deck.shuffle, once, on the deck as built
DeckShuffle ==
    /\ calls = <<>>
    /\ \E rnd \in ChoiceSeqs(Len(game.deck)) :
          /\ game' = [game EXCEPT !.deck = shuffle(@, rnd)]
          /\ calls' = <<[op |-> "shuffle", ret |-> "None", exc |-> "none",
                         rnd |-> rnd]>>
    /\ UNCHANGED <<pc, rounds>>

\* Deck.draw
DeckDraw ==
    /\ LET d == draw(game.deck)
       IN /\ game' = [game EXCEPT !.deck = d.cards]
          /\ calls' = <<[op |-> "draw", ret |-> "Card", exc |-> "none",
                         card |-> d.card]>>
    /\ UNCHANGED <<pc, rounds>>

NextDeck == DeckShuffle \/ DeckDraw

SpecDeck == InitDeck /\ [][NextDeck]_vars

RECURSIVE Factorial(_)
Factorial(n) == IF n <= 1 THEN 1 ELSE n * Factorial(n - 1)

\* C16: a shuffle of n cards keeps the cards and only reorders them; two
\* different sequences of choices (j in 0..i for i = n-1 down to 1) never
\* give the same ordering, and the choices give n! orderings in all.
C16_ShuffleIsBijection ==
    [][Stepped("shuffle")
       => LET n == Len(game.deck)
          IN /\ Len(game'.deck) = n
             /\ CardsOf(game'.deck) = CardsOf(game.deck)
             /\ \A r2 \in ChoiceSeqs(n) :
                   shuffle(game.deck, r2) = game'.deck => r2 = calls'[1].rnd
             /\ Cardinality({shuffle(game.deck, r2) : r2 \in ChoiceSeqs(n)})
                  = Factorial(n)]_vars

C16_Witness ==
    /\ calls # <<>> /\ calls[1].op = "shuffle"
    /\ Len(game.deck) = 4
    /\ game.deck[1] = initialize_deck[4] /\ game.deck[2] = initialize_deck[3]
    /\ game.deck[3] = initialize_deck[2] /\ game.deck[4] = initialize_deck[1]

\* C17: draw on a deck with cards returns its last card and leaves the
\* others in order; draw on an empty deck returns None, raises nothing and
\* leaves the deck empty.
C17_DrawPopsLast ==
    [][Stepped("draw")
       => /\ calls'[1].exc = "none"
          /\ IF Len(game.deck) > 0
             THEN /\ calls'[1].card = game.deck[Len(game.deck)]
                  /\ game'.deck = SubSeq(game.deck, 1, Len(game.deck) - 1)
                  /\ Len(game'.deck) = Len(game.deck) - 1
             ELSE /\ calls'[1].card = None
                  /\ game'.deck = <<>>]_vars

C17_Witness ==
    /\ calls # <<>> /\ calls[1].op = "draw" /\ calls[1].card = None
    /\ game.deck = <<>>

Reverse(seq) == [i \in 1..Len(seq) |-> seq[Len(seq) + 1 - i]]

\* C18: a step that starts a round leaves the player with exactly two
\* cards, the 1st and 3rd drawn, and the dealer with the 2nd and 4th (plus,
\* when the same step plays out a natural, the cards the dealer drew after
\* them); put back on the remaining deck in reverse order of drawing they
\* give the deck as it was before, or a freshly rebuilt one.
C18_DealAlternates ==
    [][rounds' = rounds + 1
       => LET p == game'.player_hand
              d == game'.dealer_hand
              drawn == <<p[1], d[1], p[2], d[2]>> \o SubSeq(d, 3, Len(d))
              deck0 == game'.deck \o Reverse(drawn)
          IN /\ Len(p) = 2 /\ Len(d) >= 2
             /\ Len(calls') = 1 => (Len(d) = 2 /\ Len(deck0) = Len(game'.deck) + 4)
             /\ \/ deck0 = game.deck
                \/ \E rnd \in RandomSources : deck0 = reset(rnd)]_vars

C18_Witness ==
    /\ rounds > 1 /\ pc = "ask_action"
    /\ Len(calls) = 1 /\ calls[1].op = "start_new_round"
    /\ Len(game.player_hand) = 2 /\ Len(game.dealer_hand) = 2
    /\ Len(game.deck) < 44

C20_RoundCountedOnce == game.wins + game.losses + game.pushes <= rounds

\* the latest step is a determine_winner on a round in which the player was
\* dealt a natural and the dealer has played the hand out
NaturalResolvedStep ==
    /\ Stepped("determine_winner") /\ calls'[1].exc = "none"
    /\ Natural(game.player_hand)
    /\ Len(game.dealer_hand) >= 2 /\ ~Raises(game.dealer_hand)
    /\ get_value(game.dealer_hand) >= 17

\* C21: when the player is dealt a natural and the dealer then plays out,
\* determine_winner returns player_blackjack or push, and push only when the
\* dealer also has a blackjack.
C21_NaturalTagIsBlackjackOrPush ==
    [][NaturalResolvedStep
       => /\ Tag \in {"player_blackjack", "push"}
          /\ Tag = "push" => is_blackjack(game.dealer_hand)]_vars

(* --------------- what play_blackjack_cli reports after a stand --------- *)
\* the characters of the words the result tags are made of
Letters(word) ==
    CASE word = "player" -> <<"p", "l", "a", "y", "e", "r">>
      [] word = "dealer" -> <<"d", "e", "a", "l", "e", "r">>
      [] word = "bust" -> <<"b", "u", "s", "t">>
      [] word = "blackjack" -> <<"b", "l", "a", "c", "k", "j", "a", "c", "k">>
      [] word = "higher" -> <<"h", "i", "g", "h", "e", "r">>
      [] word = "push" -> <<"p", "u", "s", "h">>

\* a str as its sequence of characters
Spelling(str) ==
    CASE str = "player_dealer_bust" ->
            Letters("player") \o <<"_">> \o Letters("dealer") \o <<"_">>
              \o Letters("bust")
      [] str = "dealer_bust_player" ->
            Letters("dealer") \o <<"_">> \o Letters("bust") \o <<"_">>
              \o Letters("player")
      [] str = "player_blackjack" ->
            Letters("player") \o <<"_">> \o Letters("blackjack")
      [] str = "dealer_blackjack" ->
            Letters("dealer") \o <<"_">> \o Letters("blackjack")
      [] str = "player_higher" -> Letters("player") \o <<"_">> \o Letters("higher")
      [] str = "dealer_higher" -> Letters("dealer") \o <<"_">> \o Letters("higher")
      [] OTHER -> Letters(str)

\* Python's  sub in str  on strings
In(sub, str) ==
    LET a == Spelling(sub)
        b == Spelling(str)
    IN \E i \in 0..(Len(b) - Len(a)) : SubSeq(b, i + 1, i + Len(a)) = a

\* the if / elif / else after a stand (lines 266-271)
StandMessage(result) ==
    IF In("player", result) /\ ~In("bust", result) THEN "You win!"
    ELSE IF result = "push" THEN "Push"
    ELSE "Dealer wins"

\* the latest step is a stand that ran dealer_play and determine_winner
StandResolvedStep ==
    /\ Len(calls') = 2 /\ calls'[1].op = "dealer_play"
    /\ calls'[2].op = "determine_winner" /\ calls'[2].exc = "none"

\* C22: after a stand the caller reports a player win exactly when wins
\* went up by one, a push exactly when pushes did, and a dealer win exactly
\* when losses did.
C22_StandMessageMatchesCounter ==
    [][StandResolvedStep
       => /\ StandMessage(Tag) = "You win!" <=> game'.wins = game.wins + 1
          /\ StandMessage(Tag) = "Push" <=> game'.pushes = game.pushes + 1
          /\ StandMessage(Tag) = "Dealer wins" <=> game'.losses = game.losses + 1]_vars

\* C23: the cards in the deck, the player's hand and the dealer's hand are
\* rank/suit pairs, no two of them the same (none both in a hand and in the
\* deck, none held twice), so together they are never more than 52.
C23_CardConservation ==
    LET all == game.deck \o game.player_hand \o game.dealer_hand
        n == Len(game.deck) + RealLen(game.player_hand) + RealLen(game.dealer_hand)
    IN /\ CardsOf(all) \subseteq AllPairs
       /\ Cardinality(CardsOf(all)) = n
       /\ n <= 52

\* a deck rebuilt in the course of play, with cards dealt and hit from it:
\* only in the round of a rebuild do deck and hands add up to 52 again
C23_Witness ==
    /\ rounds > 3 /\ Len(game.player_hand) >= 3
    /\ Len(game.deck) + Len(game.player_hand) + Len(game.dealer_hand) = 52

(* ------------------- Higher/Lower (card_game.py) ----------------------- *)
\* Card(None, None, is_joker=True)
Joker == [rank |-> "JOKER", suit |-> "JOKER"]

\* Rank.value in card_game.py: the first component of the enum value
Rank_value == [r \in {Rank[i] : i \in 1..13} |->
    CASE r = "TWO" -> 2 [] r = "THREE" -> 3 [] r = "FOUR" -> 4
      [] r = "FIVE" -> 5 [] r = "SIX" -> 6 [] r = "SEVEN" -> 7
      [] r = "EIGHT" -> 8 [] r = "NINE" -> 9 [] r = "TEN" -> 10
      [] r = "JACK" -> 11 [] r = "QUEEN" -> 12 [] r = "KING" -> 13
      [] r = "ACE" -> 14]

\* Card.get_value in card_game.py
Card_get_value(card) == IF card = Joker THEN 15 ELSE Rank_value[card.rank]

\* Deck._initialize_deck in card_game.py: the 52 cards, then two Jokers if
\* include_jokers
initialize_deck_with(include_jokers) ==
    initialize_deck \o (IF include_jokers THEN <<Joker, Joker>> ELSE <<>>)

\* the values random.randint(0, i) returns in a shuffle of the deck: with
\* Jokers there are two more iterations (i = 53, 52), here both answering 0
ChoicesFor(include_jokers, rnd) ==
    IF include_jokers THEN rnd \o <<0, 0>> ELSE rnd

\* Deck.reset in card_game.py
reset_with(include_jokers, rnd) ==
    shuffle(initialize_deck_with(include_jokers), ChoicesFor(include_jokers, rnd))

\* HigherLowerGame.__init__
NewHigherLowerGame(include_jokers, rnd) ==
    [deck |-> reset_with(include_jokers, rnd), include_jokers |-> include_jokers,
     score |-> 0, streak |-> 0, current_card |-> None,
     games_played |-> 0, total_correct |-> 0]

start_new_game(g, rnd) ==
    LET d0 == IF Len(g.deck) < 2 THEN reset_with(g.include_jokers, rnd) ELSE g.deck
        d1 == draw(d0)
    IN Outcome([g EXCEPT !.deck = d1.cards, !.current_card = d1.card,
                         !.games_played = @ + 1],
               "None", "none")

make_guess(g, guess_higher, rnd) ==
    IF g.current_card = None THEN Outcome(g, "None", "ValueError")
    ELSE LET d1 == draw(g.deck)
             d2 == IF d1.card = None
                   THEN draw(reset_with(g.include_jokers, rnd))
                   ELSE d1
             next_card == d2.card
             current_value == Card_get_value(g.current_card)
             next_value == Card_get_value(next_card)
             is_correct == IF next_value > current_value THEN guess_higher
                           ELSE IF next_value < current_value THEN ~guess_higher
                           ELSE FALSE
             g1 == IF is_correct
                   THEN [g EXCEPT !.score = @ + 1, !.streak = @ + 1,
                                  !.total_correct = @ + 1]
                   ELSE [g EXCEPT !.streak = 0]
         IN Outcome([g1 EXCEPT !.deck = d2.cards, !.current_card = next_card],
                    IF is_correct THEN "True" ELSE "False", "none")

\* HigherLowerGame.get_statistics
game_statistics(g) ==
    LET accuracy == IF g.games_played > 0
                    THEN Mul(Div(g.total_correct, g.games_played), 100)
                    ELSE Div(0, 1)
    IN [score |-> g.score, streak |-> g.streak, games_played |-> g.games_played,
        accuracy |-> accuracy, cards_remaining |-> Len(g.deck)]

InitHigherLower ==
    /\ game \in {NewHigherLowerGame(j, rnd) : j \in BOOLEAN, rnd \in RandomSources}
    /\ calls = <<>>
    /\ pc = "start"
    /\ rounds = 0

StartNewGame ==
    /\ rounds < MaxGames
    /\ \E rnd \in RandomSources :
          LET out == start_new_game(game, rnd)
          IN /\ game' = out.game
             /\ calls' = <<Call("start_new_game", out)>>
    /\ rounds' = rounds + 1
    /\ UNCHANGED pc

MakeGuess ==
    /\ game.score < MaxScore
    /\ \E guess_higher \in BOOLEAN, rnd \in RandomSources :
          LET out == make_guess(game, guess_higher, rnd)
          IN /\ game' = out.game
             /\ calls' = <<Call("make_guess", out)>>
    /\ UNCHANGED <<pc, rounds>>

GameStatistics ==
    /\ calls' = <<[op |-> "get_statistics", ret |-> "dict", exc |-> "none",
                   stats |-> game_statistics(game)]>>
    /\ UNCHANGED <<game, pc, rounds>>

NextHigherLower == StartNewGame \/ MakeGuess \/ GameStatistics

SpecHigherLower == InitHigherLower /\ [][NextHigherLower]_vars

\* C24: in the Higher/Lower game score equals total_correct, streak is at
\* most score and total_correct at most games_played, so the accuracy that
\* get_statistics reports lies between 0 and 100; make_guess before any
\* start_new_game raises ValueError, changes no counter and draws no card.
C24_HigherLowerCounters ==
    /\ [](LET acc == game_statistics(game).accuracy
          IN /\ game.score = game.total_correct
             /\ game.streak <= game.score
             /\ game.total_correct <= game.games_played
             /\ acc.den > 0 /\ 0 <= acc.num /\ acc.num <= 100 * acc.den)
    /\ [][Stepped("make_guess") /\ rounds = 0
          => calls'[1].exc = "ValueError" /\ game' = game]_vars

====
